---- MODULE Spec2Model ----
(***************************************************************************)
(* Model of markdown_insert.InsertPreprocessor                             *)
(* (src/markdown_insert/markdown_insert.py): the expansion of a textual    *)
(* range specification to line indices (expand_indices) and the pass over  *)
(* the document lines that replaces every `&[ranges](file)` marker by the  *)
(* selected lines of the referenced file (run).                            *)
(*                                                                         *)
(* A Python str is modelled as a sequence of one-character strings, so     *)
(* that the regular expression, str.strip, str.split and int are computed  *)
(* character by character.  The characters used are the blank, the tab,    *)
(* the newline, the decimal digits, "-", the marker punctuation and a few  *)
(* letters; "+" and "_" (which int() also accepts) are not in the alphabet.*)
(* Document lines hold no newline: they come from source.split("\n").      *)
(***************************************************************************)
EXTENDS Integers, Sequences, FiniteSets

VARIABLES
    lines,           \* run's argument: the document, a list of str
    files,           \* the file system: resolved path -> file
    pos,             \* position of the `for line in lines` loop (1-based)
    extended_lines,  \* run's output buffer
    indices,         \* run's local `indices` (last value assigned)
    stderr,          \* what was written to sys.stderr, one entry per write
    status,          \* "running", "returned", or the exception that left run
    toks             \* the tokens the range spec of a generated marker was
                     \* written from (input bookkeeping, never read by run)

vars == <<lines, files, pos, extended_lines, indices, stderr, status, toks>>

(***************************************************************************)
(* Bounds of the model.                                                    *)
(***************************************************************************)
MaxDoc == 3       \* longest document assembled from DocLines
MaxFileLen == 3   \* longest readable file
MaxNum == 3       \* largest line number in a generated range spec
MaxToks == 2      \* most tokens in a generated range spec

(***************************************************************************)
(* Characters and the str methods the code calls.                          *)
(***************************************************************************)
DigitChars == <<"0", "1", "2", "3", "4", "5", "6", "7", "8", "9">>

IsDigit(c) == \E d \in 1..10 : DigitChars[d] = c

DigitVal(c) == (CHOOSE d \in 1..10 : DigitChars[d] = c) - 1

\* str.isspace for the characters of the alphabet: what \s, strip() and
\* split() treat as whitespace.
IsSpace(c) == c \in {" ", "\t", "\n", "\r"}

RECURSIVE lstrip(_)
lstrip(s) == IF s # <<>> /\ IsSpace(Head(s)) THEN lstrip(Tail(s)) ELSE s

RECURSIVE rstrip(_)
rstrip(s) ==
    IF s # <<>> /\ IsSpace(s[Len(s)]) THEN rstrip(SubSeq(s, 1, Len(s) - 1)) ELSE s

\* str.strip()
strip(s) == rstrip(lstrip(s))

\* Length of the longest prefix of s without whitespace.
RECURSIVE WordLen(_)
WordLen(s) == IF s = <<>> \/ IsSpace(Head(s)) THEN 0 ELSE 1 + WordLen(Tail(s))

\* str.split(): the maximal runs of non-whitespace characters, in order.
RECURSIVE split(_)
split(s) ==
    LET t == lstrip(s)
        n == WordLen(t)
    IN  IF t = <<>> THEN <<>>
        ELSE <<SubSeq(t, 1, n)>> \o split(SubSeq(t, n + 1, Len(t)))

\* Length of the longest prefix of s without the character sep.
RECURSIVE FieldLen(_, _)
FieldLen(s, sep) ==
    IF s = <<>> \/ Head(s) = sep THEN 0 ELSE 1 + FieldLen(Tail(s), sep)

\* str.split(sep): the fields between the occurrences of sep, empty ones kept.
RECURSIVE split_on(_, _)
split_on(s, sep) ==
    LET n == FieldLen(s, sep)
    IN  IF n = Len(s) THEN <<s>>
        ELSE <<SubSeq(s, 1, n)>> \o split_on(SubSeq(s, n + 2, Len(s)), sep)

\* Whether int(s) returns: an optional sign, then one or more digits.
int_ok(s) ==
    LET body == IF s # <<>> /\ Head(s) = "-" THEN Tail(s) ELSE s
    IN  body # <<>> /\ \A k \in 1..Len(body) : IsDigit(body[k])

RECURSIVE DecimalValue(_)
DecimalValue(s) ==
    IF s = <<>> THEN 0
    ELSE 10 * DecimalValue(SubSeq(s, 1, Len(s) - 1)) + DigitVal(s[Len(s)])

\* int(s), where int_ok(s).
int(s) == IF Head(s) = "-" THEN 0 - DecimalValue(Tail(s)) ELSE DecimalValue(s)

\* list(range(a, b)): a, a+1, ..., b-1; empty when b <= a.
range(a, b) == [k \in 1..(b - a) |-> a + k - 1]

(***************************************************************************)
(* expand_indices: a value [raised, indices]; raised means the ValueError  *)
(* of `n = int(r)` left the function.                                      *)
(***************************************************************************)
\* One token r of the loop: `i, j = tuple(map(int, r.split("-")))` succeeds
\* exactly when there are two fields and int accepts both.
IsPair(r) ==
    LET parts == split_on(r, "-")
    IN  Len(parts) = 2 /\ int_ok(parts[1]) /\ int_ok(parts[2])

\* A variant that keeps the 1-based line numbers of the range.
PairIndicesOneBased(r) ==
    LET parts == split_on(r, "-")
    IN  range(int(parts[1]), int(parts[2]) + 1)

PairIndices(r) ==
    LET parts == split_on(r, "-")
    IN  range(int(parts[1]) - 1, int(parts[2]))

\* A variant that skips a token int() rejects instead of raising.
RECURSIVE ExpandTokensSkip(_, _)
ExpandTokensSkip(rs, acc) ==
    IF rs = <<>> THEN [raised |-> FALSE, indices |-> acc]
    ELSE LET r == Head(rs)
         IN  IF IsPair(r) THEN ExpandTokensSkip(Tail(rs), acc \o PairIndices(r))
             ELSE IF int_ok(r) THEN ExpandTokensSkip(Tail(rs), Append(acc, int(r) - 1))
             ELSE ExpandTokensSkip(Tail(rs), acc)

RECURSIVE ExpandTokens(_, _)
ExpandTokens(rs, acc) ==
    IF rs = <<>> THEN [raised |-> FALSE, indices |-> acc]
    ELSE LET r == Head(rs)
         IN  IF IsPair(r) THEN ExpandTokens(Tail(rs), acc \o PairIndices(r))
             ELSE IF int_ok(r) THEN ExpandTokens(Tail(rs), Append(acc, int(r) - 1))
             ELSE [raised |-> TRUE, indices |-> acc]

expand_indices(ranges) == ExpandTokens(split(strip(ranges)), <<>>)

(***************************************************************************)
(* The marker pattern  ^(\s*?)&\[(.*?)\]\((.+?)\)$  of run.                *)
(***************************************************************************)
\* `.` matches any character but the newline.
IsDot(c) == c # "\n"

\* A variant that lets whitespace follow the ")" of the marker.
EndPosTrailing(line) == Len(rstrip(line))

\* `$` matches at the end of the string and before a final newline: the
\* position of the last character the pattern consumes.
EndPos(line) ==
    IF line # <<>> /\ line[Len(line)] = "\n" THEN Len(line) - 1 ELSE Len(line)

\* (\s*?)&\[ : "&" is no whitespace, so the group is the whole run of
\* whitespace the line starts with.
RECURSIVE LeadingSpaces(_)
LeadingSpaces(line) ==
    IF line # <<>> /\ IsSpace(Head(line)) THEN 1 + LeadingSpaces(Tail(line)) ELSE 0

\* The positions m of a "](" at which the pattern matches the whole line:
\* k characters of \s, "&[", the range up to m - 1, "](" at m, one or more
\* characters of the file up to e - 1, and ")" at e, where `$` matches.
Matches(line) ==
    LET k == LeadingSpaces(line)
        e == EndPos(line)
    IN  IF /\ k + 6 <= e
           /\ line[k + 1] = "&" /\ line[k + 2] = "["
           /\ line[e] = ")"
           /\ \A p \in (k + 3)..(e - 1) : IsDot(line[p])
        THEN { m \in (k + 3)..(e - 3) : line[m] = "]" /\ line[m + 1] = "(" }
        ELSE {}

\* (.*?) is lazy: of the positions ms the engine returns the least.
FirstMatch(ms) == CHOOSE m \in ms : \A u \in ms : m <= u

\* `match` and `match[0].groups()`.
MatchMarker(line) ==
    LET ms == Matches(line)
        k == LeadingSpaces(line)
    IN  IF ms = {}
        THEN [matched |-> FALSE, spc |-> <<>>, rng |-> <<>>, src |-> <<>>]
        ELSE [matched |-> TRUE,
              spc |-> SubSeq(line, 1, k),
              rng |-> SubSeq(line, k + 3, FirstMatch(ms) - 1),
              src |-> SubSeq(line, FirstMatch(ms) + 2, EndPos(line) - 1)]

(***************************************************************************)
(* The file system and open().                                             *)
(***************************************************************************)
\* InsertExtension's default `path`, handed to run as self.parent_path.
parent_path == <<".">>

\* f"{self.parent_path}/{src}"
ResolvedPath(src) == parent_path \o <<"/">> \o src

\* The k-th line of a readable file, as readlines() returns it: blanks
\* around the text on some lines, and the newline that ends the line.
FileLine(k) ==
    (IF k % 2 = 0 THEN <<" ", "\t">> ELSE <<>>)
        \o <<"l", DigitChars[(k % 10) + 1]>>
        \o (IF k % 3 = 0 THEN <<" ">> ELSE <<>>)
        \o <<"\n">>

\* A file: the error open() raises for it ("none" when it opens), its lines,
\* and `bad`, the line at which decoding the content fails (0: nowhere).
File(error, n, bad) ==
    [error |-> error, lines |-> [k \in 1..n |-> FileLine(k)], bad |-> bad]

\* The files of the model: ./a is a readable file of n lines, ./u a file
\* whose second line cannot be decoded, ./d a directory, ./p a file the
\* process may not read.  Every other path does not exist.
FileSystem(n) ==
    [p \in {ResolvedPath(<<c>>) : c \in {"a", "u", "d", "p"}} |->
        IF p = ResolvedPath(<<"a">>) THEN File("none", n, 0)
        ELSE IF p = ResolvedPath(<<"u">>) THEN File("none", 2, 2)
        ELSE IF p = ResolvedPath(<<"d">>) THEN File("IsADirectoryError", 0, 0)
        ELSE File("PermissionError", 0, 0)]

\* pathlib.Path(path).open(): the exception raised, or "none".
open_error(path) ==
    IF path \in DOMAIN files THEN files[path].error ELSE "FileNotFoundError"

\* f.readlines() reads and decodes the whole file before the loop over its
\* lines starts: it returns every line or raises.
readlines(f) ==
    [raised |-> f.bad > 0, lines |-> IF f.bad > 0 THEN <<>> ELSE f.lines]

\* `i in indices`
Contains(seq, x) == \E k \in 1..Len(seq) : seq[k] = x

\* A variant that walks the index list instead of the file: a line comes
\* out once per index naming it, in index order (i counts the indices done).
RECURSIVE SelectPerIndex(_, _, _, _)
SelectPerIndex(spc, idx, ls, i) ==
    IF idx = <<>> THEN [k \in 1..Len(ls) |-> spc \o strip(ls[k])]
    ELSE IF i >= Len(idx) THEN <<>>
    ELSE (IF idx[i + 1] \in 0..(Len(ls) - 1)
          THEN <<spc \o strip(ls[idx[i + 1] + 1])>> ELSE <<>>)
         \o SelectPerIndex(spc, idx, ls, i + 1)

\* A variant that compares the 1-based line number with the indices.
RECURSIVE SelectFromOneBased(_, _, _, _)
SelectFromOneBased(spc, idx, ls, i) ==
    IF ls = <<>> THEN <<>>
    ELSE (IF idx = <<>> \/ Contains(idx, i + 1)
          THEN <<spc \o strip(Head(ls))>> ELSE <<>>)
         \o SelectFromOneBased(spc, idx, Tail(ls), i + 1)

\* A variant without `not indices or`: an empty index list selects nothing.
RECURSIVE SelectFromMembersOnly(_, _, _, _)
SelectFromMembersOnly(spc, idx, ls, i) ==
    IF ls = <<>> THEN <<>>
    ELSE (IF Contains(idx, i) THEN <<spc \o strip(Head(ls))>> ELSE <<>>)
         \o SelectFromMembersOnly(spc, idx, Tail(ls), i + 1)

\* The loop `for i, l in enumerate(...)` from enumerate index i on: what it
\* appends to extended_lines.
RECURSIVE SelectFrom(_, _, _, _)
SelectFrom(spc, idx, ls, i) ==
    IF ls = <<>> THEN <<>>
    ELSE (IF idx = <<>> \/ Contains(idx, i)
          THEN <<spc \o strip(Head(ls))>> ELSE <<>>)
         \o SelectFrom(spc, idx, Tail(ls), i + 1)

\* A variant that iterates the open file lazily: the lines before the
\* undecodable one are appended before the failure is raised.
InsertFromLazy(spc, idx, f) ==
    [raised |-> f.bad > 0,
     appended |-> SelectFrom(spc, idx,
                     IF f.bad > 0 THEN SubSeq(f.lines, 1, f.bad - 1) ELSE f.lines, 0)]

\* The body of the `with` statement for an opened file: whether it raised,
\* and what it appended to extended_lines before that.
InsertFrom(spc, idx, f) ==
    LET rl == readlines(f)
    IN  [raised |-> rl.raised, appended |-> SelectFrom(spc, idx, rl.lines, 0)]

\* The text written to sys.stderr for a path that does not exist.
ErrorMessage(path) == <<"ERROR: \"">> \o path \o <<"\" does not exist.\n">>

(***************************************************************************)
(* The documents run is given.                                             *)
(***************************************************************************)
Marker(spc, rng, src) == spc \o <<"&", "[">> \o rng \o <<"]", "(">> \o src \o <<")">>

\* Lines the documents are assembled from.
DocLines ==
    { <<" ", "x", " ">>,                                     \* text
      Marker(<<>>, <<>>, <<"a">>),                           \* all lines
      Marker(<<" ", " ">>, <<"2">>, <<"a">>),                \* indented, line 2
      Marker(<<>>, <<"3", " ", "1", " ", "1">>, <<"a">>),    \* unordered, twice
      Marker(<<"\t">>, <<>>, <<"m">>),                       \* no such file
      Marker(<<>>, <<>>, <<"d">>),                           \* a directory
      Marker(<<>>, <<>>, <<"u">>),                           \* undecodable
      Marker(<<>>, <<"2", " ", "1", "-", "b">>, <<"a">>) }   \* malformed token

Docs == UNION { [1..n -> DocLines] : n \in 0..MaxDoc }

\* Single lines around the marker syntax: text or blanks before "&[" and
\* after ")", an empty or a present file reference, a broken bracket.
MarkerLikeLines ==
    { pre \o Marker(<<>>, rng, src) \o post :
        pre \in {<<>>, <<" ">>, <<"x">>, <<" ", "x">>, <<"x", " ">>},
        rng \in {<<>>, <<"2">>, <<"5", "-", "2">>, <<"a">>, <<"3", "-">>,
                 <<"1", "-", "2", "-", "3">>, <<"-", "2">>, <<"9">>},
        src \in {<<>>, <<"a">>, <<"m">>, <<"p">>},
        post \in {<<>>, <<" ">>, <<"x">>, <<")">>} }
    \cup { <<"&", "[", "2", "(", "a", ")">>, <<"[", "2", "]", "(", "a", ")">>,
           <<"&", "[", "2", "]", " ", "(", "a", ")">>, <<>> }

\* A range spec written from tokens: a token is a line number i, or a range
\* i-j of line numbers.
Decimal(n) ==
    IF n < 10 THEN <<DigitChars[n + 1]>>
    ELSE <<DigitChars[(n \div 10) + 1], DigitChars[(n % 10) + 1]>>

RenderToken(t) ==
    IF t.kind = "single" THEN Decimal(t.i)
    ELSE Decimal(t.i) \o <<"-">> \o Decimal(t.j)

RECURSIVE RenderSpec(_, _)
RenderSpec(ts, pad) ==
    IF ts = <<>> THEN (IF pad = 1 THEN <<" ">> ELSE <<>>)
    ELSE (IF pad = 1 THEN <<" ", "\t">> ELSE <<>>)
         \o RenderToken(Head(ts))
         \o (IF pad = 0 /\ Len(ts) > 1 THEN <<" ">> ELSE <<>>)
         \o RenderSpec(Tail(ts), pad)

Tokens ==
    { [kind |-> "single", i |-> n, j |-> n] : n \in 0..MaxNum }
    \cup { [kind |-> "range", i |-> a, j |-> b] : a \in 1..MaxNum, b \in 1..MaxNum }

\* The range spec "1-4 7-10 22" of the docstring of expand_indices.
ExampleToks ==
    << [kind |-> "range", i |-> 1, j |-> 4],
       [kind |-> "range", i |-> 7, j |-> 10],
       [kind |-> "single", i |-> 22, j |-> 22] >>

TokSeqs == UNION { [1..n -> Tokens] : n \in 0..MaxToks } \cup {ExampleToks}

(***************************************************************************)
(* The state before run starts.                                            *)
(***************************************************************************)
Init ==
    /\ \/ /\ lines \in Docs
          /\ files \in { FileSystem(n) : n \in 0..MaxFileLen }
          /\ toks = <<>>
       \/ /\ toks \in TokSeqs
          /\ \E pad \in 0..1 :
                lines = << Marker(<<" ">>, RenderSpec(toks, pad), <<"a">>) >>
          /\ files = FileSystem(MaxFileLen - 1)
       \/ /\ lines \in { <<l>> : l \in MarkerLikeLines }
          /\ files = FileSystem(MaxFileLen)
          /\ toks = <<>>
    /\ pos = 1
    /\ extended_lines = <<>>
    /\ indices = <<>>
    /\ stderr = <<>>
    /\ status = "running"

(***************************************************************************)
(* run: one action per way an iteration of `for line in lines` ends, and   *)
(* one for `return extended_lines`.                                        *)
(***************************************************************************)
InLoop == status = "running" /\ pos <= Len(lines)

\* A variant that strips the line it passes through.
PassThroughStripped ==
    /\ InLoop
    /\ ~MatchMarker(lines[pos]).matched
    /\ extended_lines' = Append(extended_lines, strip(lines[pos]))
    /\ pos' = pos + 1
    /\ UNCHANGED <<lines, files, indices, stderr, status, toks>>

\* else: extended_lines.append(line)
PassThrough ==
    /\ InLoop
    /\ ~MatchMarker(lines[pos]).matched
    /\ extended_lines' = Append(extended_lines, lines[pos])
    /\ pos' = pos + 1
    /\ UNCHANGED <<lines, files, indices, stderr, status, toks>>

\* indices = self.expand_indices(rng) raises: run is left by the ValueError.
RaiseValueError ==
    LET m == MatchMarker(lines[pos])
    IN  /\ InLoop
        /\ m.matched
        /\ expand_indices(m.rng).raised
        /\ status' = "ValueError"
        /\ UNCHANGED <<lines, files, pos, extended_lines, indices, stderr, toks>>

\* A variant that keeps the marker line of a missing file in the output.
MissingFileKeepsMarker ==
    LET m == MatchMarker(lines[pos])
        x == expand_indices(m.rng)
    IN  /\ InLoop
        /\ m.matched
        /\ ~x.raised
        /\ open_error(ResolvedPath(m.src)) = "FileNotFoundError"
        /\ indices' = x.indices
        /\ stderr' = Append(stderr, ErrorMessage(ResolvedPath(m.src)))
        /\ extended_lines' = Append(extended_lines, lines[pos])
        /\ pos' = pos + 1
        /\ UNCHANGED <<lines, files, status, toks>>

\* except FileNotFoundError: sys.stderr.write(...)
MissingFile ==
    LET m == MatchMarker(lines[pos])
        x == expand_indices(m.rng)
    IN  /\ InLoop
        /\ m.matched
        /\ ~x.raised
        /\ open_error(ResolvedPath(m.src)) = "FileNotFoundError"
        /\ indices' = x.indices
        /\ stderr' = Append(stderr, ErrorMessage(ResolvedPath(m.src)))
        /\ pos' = pos + 1
        /\ UNCHANGED <<lines, files, extended_lines, status, toks>>

\* A variant whose except clause names OSError: every failure of open() is
\* reported and skipped.
RecoverOSError ==
    LET m == MatchMarker(lines[pos])
        x == expand_indices(m.rng)
    IN  /\ InLoop
        /\ m.matched
        /\ ~x.raised
        /\ open_error(ResolvedPath(m.src)) \notin {"none", "FileNotFoundError"}
        /\ indices' = x.indices
        /\ stderr' = Append(stderr, ErrorMessage(ResolvedPath(m.src)))
        /\ pos' = pos + 1
        /\ UNCHANGED <<lines, files, extended_lines, status, toks>>

\* open() raises another OSError: no except clause names it.
RaiseOSError ==
    LET m == MatchMarker(lines[pos])
        x == expand_indices(m.rng)
    IN  /\ InLoop
        /\ m.matched
        /\ ~x.raised
        /\ open_error(ResolvedPath(m.src)) \notin {"none", "FileNotFoundError"}
        /\ indices' = x.indices
        /\ status' = open_error(ResolvedPath(m.src))
        /\ UNCHANGED <<lines, files, pos, extended_lines, stderr, toks>>

\* The file opens and is read: the selected lines are appended.
InsertLines ==
    LET m == MatchMarker(lines[pos])
        x == expand_indices(m.rng)
        r == InsertFrom(m.spc, x.indices, files[ResolvedPath(m.src)])
    IN  /\ InLoop
        /\ m.matched
        /\ ~x.raised
        /\ open_error(ResolvedPath(m.src)) = "none"
        /\ ~r.raised
        /\ indices' = x.indices
        /\ extended_lines' = extended_lines \o r.appended
        /\ pos' = pos + 1
        /\ UNCHANGED <<lines, files, stderr, status, toks>>

\* The file opens and reading it raises UnicodeDecodeError (a ValueError,
\* not a FileNotFoundError).
RaiseDecodeError ==
    LET m == MatchMarker(lines[pos])
        x == expand_indices(m.rng)
        r == InsertFrom(m.spc, x.indices, files[ResolvedPath(m.src)])
    IN  /\ InLoop
        /\ m.matched
        /\ ~x.raised
        /\ open_error(ResolvedPath(m.src)) = "none"
        /\ r.raised
        /\ indices' = x.indices
        /\ extended_lines' = extended_lines \o r.appended
        /\ status' = "UnicodeDecodeError"
        /\ UNCHANGED <<lines, files, pos, stderr, toks>>

\* return extended_lines
Return ==
    /\ status = "running"
    /\ pos = Len(lines) + 1
    /\ status' = "returned"
    /\ UNCHANGED <<lines, files, pos, extended_lines, indices, stderr, toks>>

Next ==
    \/ PassThrough
    \/ RaiseValueError
    \/ MissingFile
    \/ RaiseOSError
    \/ InsertLines
    \/ RaiseDecodeError
    \/ Return

Spec == Init /\ [][Next]_vars

(***************************************************************************)
(* Vocabulary of the properties.                                           *)
(***************************************************************************)
\* The iteration at `pos` handles a marker line / any other line.
AtMarker == InLoop /\ MatchMarker(lines[pos]).matched

\* The groups and the resolved path of the marker at `pos`.
CurSpc == MatchMarker(lines[pos]).spc
CurRng == MatchMarker(lines[pos]).rng
CurPath == ResolvedPath(MatchMarker(lines[pos]).src)

\* The file of the marker at `pos` exists / exists and is read to its end.
CurExists == CurPath \in DOMAIN files
CurReadable == CurExists /\ files[CurPath].error = "none" /\ files[CurPath].bad = 0

\* What the step appended to the output buffer, which it otherwise kept.
KeepsBuffer == SubSeq(extended_lines', 1, Len(extended_lines)) = extended_lines
Appended == SubSeq(extended_lines', Len(extended_lines) + 1, Len(extended_lines'))

\* The file positions (0-based) an index list selects in a file of n lines.
SelectedPositions(idx, n) ==
    { i \in 0..(n - 1) : idx = <<>> \/ \E k \in 1..Len(idx) : idx[k] = i }

\* s is l without its leading and trailing whitespace.
IsStripOf(s, l) ==
    \E a \in 0..Len(l) : \E b \in a..Len(l) :
        /\ s = SubSeq(l, a + 1, b)
        /\ \A p \in 1..a : IsSpace(l[p])
        /\ \A p \in (b + 1)..Len(l) : IsSpace(l[p])
        /\ s = <<>> \/ (~IsSpace(s[1]) /\ ~IsSpace(s[Len(s)]))

\* out is the file line l, stripped and prefixed with the indent spc.
IsIndentedStripOf(out, spc, l) ==
    /\ Len(out) >= Len(spc)
    /\ SubSeq(out, 1, Len(spc)) = spc
    /\ IsStripOf(SubSeq(out, Len(spc) + 1, Len(out)), l)

\* seg holds, in file order and once each, the lines of fl at the positions
\* K, stripped and indented.
IsSelection(seg, spc, fl, K) ==
    /\ Len(seg) = Cardinality(K)
    /\ \A i \in K :
          IsIndentedStripOf(seg[Cardinality({j \in K : j <= i})], spc, fl[i + 1])

\* The indices a list of well-formed tokens stands for: n-1 for a line
\* number n, and i-1, ..., j-1 for a range i-j, in token order.
RECURSIVE ExpectedIndices(_)
ExpectedIndices(ts) ==
    IF ts = <<>> THEN <<>>
    ELSE (IF Head(ts).kind = "single" THEN << Head(ts).i - 1 >>
          ELSE [k \in 1..(Head(ts).j - Head(ts).i + 1) |-> Head(ts).i - 2 + k])
         \o ExpectedIndices(Tail(ts))

\* The document is the single marker whose range spec is written from toks.
GeneratedMarker ==
    \E pad \in 0..1 : lines = << Marker(<<" ">>, RenderSpec(toks, pad), <<"a">>) >>

(***************************************************************************)
(* C1: expand_indices returns, for the whitespace-separated tokens of the  *)
(* range spec in token order, the concatenation of i-1, ..., j-1 for a     *)
(* token "i-j" and of n-1 for a token "n"; nothing is sorted, renumbered   *)
(* or deduplicated across tokens, and well-formed tokens never raise.      *)
(***************************************************************************)
C1_ExpandIndices ==
    GeneratedMarker =>
        /\ status \in {"running", "returned"}
        /\ pos = 2 => indices = ExpectedIndices(toks)

\* "1-4 7-10 22" has been expanded to [0,1,2,3,6,7,8,9,21].
C1_Witness ==
    /\ toks = ExampleToks
    /\ GeneratedMarker
    /\ pos = 2
    /\ indices = <<0, 1, 2, 3, 6, 7, 8, 9, 21>>

(***************************************************************************)
(* C2: a marker whose file opens and is read contributes, at the marker's  *)
(* position, exactly the file lines at the positions i such that the       *)
(* expanded index list is empty or contains i: in ascending file order,    *)
(* once each, stripped and prefixed with the marker's indent.              *)
(***************************************************************************)
C2_InsertedLines ==
    [][ (AtMarker /\ CurReadable /\ ~expand_indices(CurRng).raised) =>
            /\ pos' = pos + 1
            /\ status' = "running"
            /\ KeepsBuffer
            /\ IsSelection(Appended, CurSpc, files[CurPath].lines,
                           SelectedPositions(indices', Len(files[CurPath].lines)))
      ]_vars

\* "&[3 1 1](a)" on a file of three lines gave lines 1 and 3, once each.
C2_Witness ==
    /\ lines = << Marker(<<>>, <<"3", " ", "1", " ", "1">>, <<"a">>) >>
    /\ Len(files[ResolvedPath(<<"a">>)].lines) = 3
    /\ pos = 2
    /\ indices = <<2, 0, 0>>
    /\ extended_lines = << <<"l", "1">>, <<"l", "3">> >>

(***************************************************************************)
(* C3: every line that is not a marker is appended to the output           *)
(* unchanged, in place: each iteration, whatever it does with a marker,    *)
(* keeps what the buffer holds, and the iteration of a non-marker line     *)
(* appends that very line; so a document without markers is returned       *)
(* as it is.                                                               *)
(***************************************************************************)
C3_PassThrough ==
    /\ [][ /\ InLoop => KeepsBuffer
           /\ (InLoop /\ ~MatchMarker(lines[pos]).matched) =>
                 /\ Appended = << lines[pos] >>
                 /\ pos' = pos + 1
                 /\ status' = "running"
       ]_vars
    /\ []( (/\ status = "returned"
            /\ \A k \in 1..Len(lines) : ~MatchMarker(lines[k]).matched)
           => extended_lines = lines )

\* text, a marker of a missing file, text: both text lines come out, as given.
C3_Witness ==
    /\ lines = << <<" ", "x", " ">>, Marker(<<"\t">>, <<>>, <<"m">>), <<" ", "x", " ">> >>
    /\ status = "returned"
    /\ extended_lines = << <<" ", "x", " ">>, <<" ", "x", " ">> >>

(***************************************************************************)
(* C4 as stated: the list run returns is at least as long as its input.    *)
(***************************************************************************)
C4_Original == status = "returned" => Len(extended_lines) >= Len(lines)

\* The marker lines that contribute no line: the file does not exist, or
\* the index list selects no position of the file.
EmptyMarkers ==
    { k \in 1..Len(lines) :
        LET m == MatchMarker(lines[k])
            path == ResolvedPath(m.src)
        IN  /\ m.matched
            /\ \/ path \notin DOMAIN files
               \/ SelectedPositions(expand_indices(m.rng).indices,
                                    Len(files[path].lines)) = {} }

(***************************************************************************)
(* C4, amended: the list run returns is at least as long as its input      *)
(* less the marker lines that contribute no line (missing file, or no      *)
(* line of the file selected); it is as long as the input or longer when   *)
(* every marker contributes a line.                                        *)
(***************************************************************************)
C4_Length ==
    status = "returned" =>
        Len(extended_lines) >= Len(lines) - Cardinality(EmptyMarkers)

\* A returned document all of whose markers contributed, one of them more
\* than one line.
C4_Witness ==
    /\ status = "returned"
    /\ EmptyMarkers = {}
    /\ \E k \in 1..Len(lines) : MatchMarker(lines[k]).matched
    /\ Len(extended_lines) > Len(lines)

(***************************************************************************)
(* C5 as stated: for a marker whose resolved path does not exist, run      *)
(* appends nothing, writes one diagnostic naming the path and goes on      *)
(* to the next line.                                                       *)
(***************************************************************************)
C5_Original ==
    [][ (AtMarker /\ ~CurExists) =>
            /\ extended_lines' = extended_lines
            /\ stderr' = Append(stderr,
                  <<"ERROR: \"">> \o <<".", "/">> \o MatchMarker(lines[pos]).src
                      \o <<"\" does not exist.\n">>)
            /\ pos' = pos + 1
            /\ status' = "running"
      ]_vars

(***************************************************************************)
(* C5, amended: for a marker whose range spec expands without a            *)
(* value-parsing failure and whose resolved path does not exist, run       *)
(* appends nothing (the marker line is dropped), writes exactly one        *)
(* diagnostic naming the resolved path, and goes on to the next line.      *)
(***************************************************************************)
C5_MissingFile ==
    [][ (AtMarker /\ ~CurExists /\ ~expand_indices(CurRng).raised) =>
            /\ extended_lines' = extended_lines
            /\ stderr' = Append(stderr,
                  <<"ERROR: \"">> \o <<".", "/">> \o MatchMarker(lines[pos]).src
                      \o <<"\" does not exist.\n">>)
            /\ pos' = pos + 1
            /\ status' = "running"
      ]_vars

\* text, a marker of a missing file, text: returned with one diagnostic.
C5_Witness ==
    /\ lines = << <<" ", "x", " ">>, Marker(<<"\t">>, <<>>, <<"m">>), <<" ", "x", " ">> >>
    /\ status = "returned"
    /\ stderr = << <<"ERROR: \"", ".", "/", "m", "\" does not exist.\n">> >>
    /\ Len(extended_lines) = 2

\* The file of the marker at `pos` exists and cannot be opened or read.
CurUnreadable ==
    CurExists /\ (files[CurPath].error # "none" \/ files[CurPath].bad > 0)

(***************************************************************************)
(* C6 as stated: for a marker whose resolved path exists and cannot be     *)
(* opened or read, run recovers as for a missing file: a diagnostic, no    *)
(* line appended, on to the next line.                                     *)
(***************************************************************************)
C6_Original ==
    [][ (AtMarker /\ CurUnreadable /\ ~expand_indices(CurRng).raised) =>
            /\ extended_lines' = extended_lines
            /\ Len(stderr') = Len(stderr) + 1
            /\ pos' = pos + 1
            /\ status' = "running"
      ]_vars

(***************************************************************************)
(* C6, amended: for a marker whose range spec expands and whose resolved   *)
(* path exists and cannot be opened or read (permission denied, a          *)
(* directory, undecodable content), run does not recover: the failure      *)
(* leaves run, which writes no diagnostic, appends nothing for the marker  *)
(* and returns no list.                                                    *)
(***************************************************************************)
C6_Unreadable ==
    /\ [][ (AtMarker /\ CurUnreadable /\ ~expand_indices(CurRng).raised) =>
              /\ status' \in {"PermissionError", "IsADirectoryError",
                              "UnicodeDecodeError"}
              /\ extended_lines' = extended_lines
              /\ stderr' = stderr
              /\ pos' = pos
       ]_vars
    /\ []( status = "returned" =>
             \A k \in 1..Len(lines) :
                 LET m == MatchMarker(lines[k])
                     path == ResolvedPath(m.src)
                 IN  ~(/\ m.matched
                       /\ path \in DOMAIN files
                       /\ (files[path].error # "none" \/ files[path].bad > 0)) )

\* The marker of a directory, after a text line: run was left at the marker.
C6_Witness ==
    /\ status = "IsADirectoryError"
    /\ pos = 2
    /\ lines[2] = Marker(<<>>, <<>>, <<"d">>)
    /\ extended_lines = << <<" ", "x", " ">> >>
    /\ stderr = <<>>

(***************************************************************************)
(* C7: no partial marker: an iteration on a marker appends either all the  *)
(* lines the marker selects or none, and none when it fails (a diagnostic  *)
(* is written or an exception leaves run).                                 *)
(***************************************************************************)
C7_NoPartialMarker ==
    [][ AtMarker =>
            /\ KeepsBuffer
            /\ (status' # "running" \/ stderr' # stderr) =>
                  extended_lines' = extended_lines
            /\ (status' = "running" /\ stderr' = stderr) =>
                  Len(Appended) =
                      Cardinality(SelectedPositions(indices',
                                                    Len(files[CurPath].lines)))
      ]_vars

\* The marker of the undecodable file, whose first line is readable: the
\* failure was raised and nothing of the file is in the buffer.
C7_Witness ==
    /\ status = "UnicodeDecodeError"
    /\ lines[pos] = Marker(<<>>, <<>>, <<"u">>)
    /\ files[ResolvedPath(<<"u">>)].bad = 2
    /\ pos = 2
    /\ Len(extended_lines) = 1

\* t is an integer literal: an optional sign and one or more digits.
ValidInteger(t) ==
    \E a \in {0, 1} :
        /\ a < Len(t)
        /\ a = 1 => t[1] = "-"
        /\ \A p \in (a + 1)..Len(t) : t[p] \in {"0", "1", "2", "3", "4", "5", "6", "7", "8", "9"}

\* t is neither an integer nor two integers joined by "-".
Malformed(t) ==
    /\ ~ValidInteger(t)
    /\ ~\E p \in 1..Len(t) :
          /\ t[p] = "-"
          /\ ValidInteger(SubSeq(t, 1, p - 1))
          /\ ValidInteger(SubSeq(t, p + 1, Len(t)))

\* One of the whitespace-separated tokens of rng is malformed.
HasMalformedToken(rng) ==
    \E a \in 1..Len(rng) : \E b \in a..Len(rng) :
        /\ \A p \in a..b : ~IsSpace(rng[p])
        /\ a = 1 \/ IsSpace(rng[a - 1])
        /\ b = Len(rng) \/ IsSpace(rng[b + 1])
        /\ Malformed(SubSeq(rng, a, b))

(***************************************************************************)
(* C8: a marker with a token that is neither an integer nor an "int-int"   *)
(* pair makes run end with a ValueError: nothing is appended or written    *)
(* for it, and run never returns a list for a document with such a marker. *)
(***************************************************************************)
C8_MalformedToken ==
    /\ [][ (AtMarker /\ HasMalformedToken(CurRng)) =>
              /\ status' = "ValueError"
              /\ extended_lines' = extended_lines
              /\ stderr' = stderr
       ]_vars
    /\ []( status = "returned" =>
             \A k \in 1..Len(lines) :
                 ~(/\ MatchMarker(lines[k]).matched
                   /\ HasMalformedToken(MatchMarker(lines[k]).rng)) )

\* "&[2 1-b](a)" after a text line: the ValueError left run, no diagnostic.
C8_Witness ==
    /\ status = "ValueError"
    /\ pos = 2
    /\ lines[2] = Marker(<<>>, <<"2", " ", "1", "-", "b">>, <<"a">>)
    /\ extended_lines = << <<" ", "x", " ">> >>
    /\ stderr = <<>>

\* The whole line is whitespace, "&[", a range spec, "](", a non-empty file
\* reference and ")".
WholeLineMarker(line) ==
    \E k \in 0..Len(line) : \E m \in 1..Len(line) :
        /\ \A p \in 1..k : IsSpace(line[p])
        /\ k + 3 <= m /\ m + 3 <= Len(line)
        /\ line[k + 1] = "&" /\ line[k + 2] = "["
        /\ line[m] = "]" /\ line[m + 1] = "("
        /\ line[Len(line)] = ")"

OnlyDescending ==
    /\ toks # <<>>
    /\ \A k \in 1..Len(toks) : toks[k].kind = "range" /\ toks[k].i > toks[k].j

(***************************************************************************)
(* C10: every line of the file is inserted exactly when the expanded index *)
(* list is empty: a non-empty range spec made of descending ranges only    *)
(* expands to no index and inserts all the lines of the file, as an empty  *)
(* range spec does.                                                        *)
(***************************************************************************)
C10_DescendingInsertsAll ==
    (GeneratedMarker /\ pos = 2 /\ (toks = <<>> \/ OnlyDescending)) =>
        /\ indices = <<>>
        /\ IsSelection(extended_lines, <<" ">>, files[ResolvedPath(<<"a">>)].lines,
                       0..(Len(files[ResolvedPath(<<"a">>)].lines) - 1))

\* "&[3-1](a)": no index, and the whole file in the buffer.
C10_Witness ==
    /\ GeneratedMarker
    /\ toks = << [kind |-> "range", i |-> 3, j |-> 1] >>
    /\ pos = 2
    /\ indices = <<>>
    /\ Len(extended_lines) = Len(files[ResolvedPath(<<"a">>)].lines)
    /\ Len(extended_lines) >= 2

====
